---- MODULE Spec2Model ----
(***************************************************************************)
(* A model of the kubeflake identifier generator (v1/kubeflake.go), its    *)
(* radix codec (internal/kubeflake/base.go) and its Compose/Decompose      *)
(* bit packing.                                                            *)
(*                                                                         *)
(* Scaling.  The engine computes in uint64 and int64.  TLC's integers are  *)
(* 32 bits wide, so the machine word is modelled with WordBits bits        *)
(* instead of 64 and the bit layouts are scaled with it; every unsigned    *)
(* operation wraps modulo 2^WordBits exactly where the source wraps modulo *)
(* 2^64.  Times are nanoseconds since the Unix epoch, as UnixNano() gives  *)
(* them, and are never negative in the model.                              *)
(***************************************************************************)
EXTENDS Integers, Sequences, FiniteSets, TLC

\* ------------------------------------------------------------------ bounds
\* Width of the machine word (64 in the source).
WordBits == 5
\* The injected clock shows instants 0..MaxNow (nanoseconds).
MaxNow == 7
\* NextID calls each caller makes where the scenario bounds them (perG in the tests).
MaxCalls == 2

Word == 2 ^ WordBits

Engines == {1, 2}
Callers == {1, 2}

\* The values a cluster-id or machine-id provider function returns: func() (int, error)
\* may return any int; in every layout of Layouts 0 and 1 are in range, -1 and 4 are not.
ProviderInts == {-1, 0, 1, 2, 4}

\* Bit layouts (sequence, cluster, machine), scaled from settings such as 9/3/13.
Layouts == {[BitsSequence |-> 2, BitsCluster |-> 1, BitsMachine |-> 1],
            [BitsSequence |-> 1, BitsCluster |-> 1, BitsMachine |-> 1],
            [BitsSequence |-> 1, BitsCluster |-> 1, BitsMachine |-> 2]}

NoID == [id |-> -1, tick |-> -1, seq |-> -1, engine |-> 0]

VARIABLES
    \* Settings / the Kubeflake struct's layout fields, fixed at construction
    bitsSequence, bitsCluster, bitsMachine, timeUnit, epochTime,
    \* the engine's codec (kf.base): the name of a BaseConverter
    base,
    \* per engine: the Kubeflake struct's fields
    clusterId, machineId, elapsedTime, sequence, mutex,
    \* the injected clock (nowFunc): the instant it shows, and the step it advances by
    \* on every reading (0: a wall clock that moves on its own)
    now, clockStep,
    \* per caller: the engine it calls, its position in NextID, NextID's locals, the
    \* calls it has made and the ids it got (counted when perG bounds the calls)
    eng, pc, overtime, sleepTime, perG, calls, ids,
    \* observers: the last result returned, and one issued id, remembered at the
    \* moment it was issued
    out, marked,
    \* observer: how many ids the marked id's engine has issued with the marked id's
    \* tick, the marked id and those after it (counted up to one more than
    \* 2^bitsSequence); -1 in the scenarios that do not count
    sameTick,
    \* the last result of NextKey: every call of the model is a NextKey call, whose
    \* NextID part returns out
    key,
    \* one use of the codec (Encode, then Decode of the key), and one use of Compose
    \* followed by Decompose: the arguments, the results, the position
    codec, compose,
    \* one call of newWithSettings: the Settings passed, the position in the function,
    \* what the providers returned and how often each was invoked, the results
    newCall

engineVars == <<clusterId, machineId, elapsedTime, sequence, mutex>>
settingVars == <<bitsSequence, bitsCluster, bitsMachine, timeUnit, epochTime, base>>
callerVars == <<eng, pc, overtime, sleepTime, perG, calls, ids>>
observerVars == <<out, marked, key, sameTick>>
pureVars == <<codec, compose, newCall>>
vars == <<settingVars, engineVars, now, clockStep, callerVars, observerVars, pureVars>>

\* ---------------------------------------------------------- machine words
\* uint64(x): the conversion, and the result of every unsigned operation.
U64(x) == x % Word

\* int64(x) of an unsigned word: two's complement.
I64(x) == IF U64(x) >= Word \div 2 THEN U64(x) - Word ELSE U64(x)

\* x << n on uint64: bits shifted out are lost.
Shl(x, n) == U64(x * (2 ^ n))

\* x >> n on uint64.
Shr(x, n) == x \div (2 ^ n)

RECURSIVE BitOr(_, _)
BitOr(a, b) ==
    IF a = 0 THEN b
    ELSE IF b = 0 THEN a
    ELSE (IF a % 2 = 1 \/ b % 2 = 1 THEN 1 ELSE 0) + 2 * BitOr(a \div 2, b \div 2)

RECURSIVE BitAnd(_, _)
BitAnd(a, b) ==
    IF a = 0 \/ b = 0 THEN 0
    ELSE (IF a % 2 = 1 /\ b % 2 = 1 THEN 1 ELSE 0) + 2 * BitAnd(a \div 2, b \div 2)

\* ------------------------------------------------------ construction fields
bitsTime == WordBits - bitsCluster - bitsMachine - bitsSequence

sequenceMask == U64(2 ^ bitsSequence - 1)

toInternalTime(t) == U64(t \div timeUnit)

startTime == toInternalTime(epochTime)

currentElapsedTime(t) == U64(toInternalTime(t) - startTime)

\* ------------------------------------------------------------------ clock
\* One reading of nowFunc: the instant returned.  A step clock advances first.
Reading == now + clockStep

\* ------------------------------------------------------------------- toID
\* toID reads the struct's fields: the stored tick and sequence, the two ids.
toIDMutantStrictLimit(tick, seq, cluster, machine) ==
    IF tick > 2 ^ bitsTime
    THEN [id |-> 0, err |-> "errOverTimeLimit"]
    ELSE [id |-> BitOr(BitOr(BitOr(Shl(tick, bitsSequence + bitsCluster + bitsMachine),
                                   Shl(U64(seq), bitsMachine + bitsCluster)),
                             Shl(U64(cluster), bitsMachine)),
                       U64(machine)),
          err |-> "nil"]

toID(tick, seq, cluster, machine) ==
    IF tick >= 2 ^ bitsTime
    THEN [id |-> 0, err |-> "errOverTimeLimit"]
    ELSE [id |-> BitOr(BitOr(BitOr(Shl(tick, bitsSequence + bitsCluster + bitsMachine),
                                   Shl(U64(seq), bitsMachine + bitsCluster)),
                             Shl(U64(cluster), bitsMachine)),
                       U64(machine)),
          err |-> "nil"]

\* ------------------------------------------------------------- Decompose
timePart(id) == Shr(id, bitsSequence + bitsCluster + bitsMachine)

sequencePart(id) ==
    Shr(BitAnd(id, U64((2 ^ bitsSequence - 1) * 2 ^ (bitsMachine + bitsCluster))),
        bitsMachine + bitsCluster)

clusterPartMutantUnshiftedMask(id) ==
    Shr(BitAnd(id, U64(2 ^ bitsCluster - 1)), bitsMachine)

clusterPart(id) ==
    Shr(BitAnd(id, U64((2 ^ bitsCluster - 1) * 2 ^ bitsMachine)), bitsMachine)

machinePart(id) == BitAnd(id, U64(2 ^ bitsMachine - 1))

Decompose(id) ==
    [Timestamp |-> timePart(id), Sequence |-> sequencePart(id),
     MachineID |-> machinePart(id), ClusterID |-> clusterPart(id)]

\* =================================================================== codec
\* Strings are sequences of one-character strings.  Encoded values stay below
\* MaxValue * 64, far from the point where Decode's uint64 arithmetic would wrap.
MaxValue == 4200

base62Chars ==
    <<
       "0", "1", "2", "3", "4", "5", "6", "7", "8", "9", "A", "B", "C", "D", "E", "F",
       "G", "H", "I", "J", "K", "L", "M", "N", "O", "P", "Q", "R", "S", "T", "U", "V",
       "W", "X", "Y", "Z", "a", "b", "c", "d", "e", "f", "g", "h", "i", "j", "k", "l",
       "m", "n", "o", "p", "q", "r", "s", "t", "u", "v", "w", "x", "y", "z"
    >>

base64Chars ==
    <<
       "A", "B", "C", "D", "E", "F", "G", "H", "I", "J", "K", "L", "M", "N", "O", "P",
       "Q", "R", "S", "T", "U", "V", "W", "X", "Y", "Z", "a", "b", "c", "d", "e", "f",
       "g", "h", "i", "j", "k", "l", "m", "n", "o", "p", "q", "r", "s", "t", "u", "v",
       "w", "x", "y", "z", "0", "1", "2", "3", "4", "5", "6", "7", "8", "9", "+", "/"
    >>

\* bytes.IndexByte: the index of the first occurrence of ch, or -1.
IndexByte(chars, ch) ==
    IF \E i \in 1..Len(chars) : chars[i] = ch
    THEN (CHOOSE i \in 1..Len(chars) : chars[i] = ch /\ \A j \in 1..(i - 1) : chars[j] # ch) - 1
    ELSE -1

\* The loop of Base62Converter.Encode: prepend the digit of each remainder.
RECURSIVE Base62EncodeLoop(_, _)
Base62EncodeLoop(n, result) ==
    IF n > 0
    THEN Base62EncodeLoop(n \div 62, <<base62Chars[(n % 62) + 1]>> \o result)
    ELSE result

\* (mutant) keys padded with the digit-0 character to two characters.
Base62EncodeMutantPadded(n) ==
    IF n = 0 THEN <<"0">>
    ELSE IF n < 62 THEN <<"0">> \o Base62EncodeLoop(n, <<>>)
    ELSE Base62EncodeLoop(n, <<>>)

Base62Encode(n) == IF n = 0 THEN <<"0">> ELSE Base62EncodeLoop(n, <<>>)

RECURSIVE Base62DecodeLoop(_, _, _)
Base62DecodeLoop(s, i, result) ==
    IF i > Len(s)
    THEN [value |-> result, err |-> "nil"]
    ELSE LET index == IndexByte(base62Chars, s[i])
         IN  IF index = -1
             THEN [value |-> 0, err |-> "ErrInvalidBase"]
             ELSE Base62DecodeLoop(s, i + 1, result * 62 + index)

\* (mutant) characters outside the alphabet are skipped.
RECURSIVE Base62DecodeLoopMutantSkips(_, _, _)
Base62DecodeLoopMutantSkips(s, i, result) ==
    IF i > Len(s)
    THEN [value |-> result, err |-> "nil"]
    ELSE LET index == IndexByte(base62Chars, s[i])
         IN  IF index = -1
             THEN Base62DecodeLoopMutantSkips(s, i + 1, result)
             ELSE Base62DecodeLoopMutantSkips(s, i + 1, result * 62 + index)

Base62DecodeMutantSkipsInvalid(s) == Base62DecodeLoopMutantSkips(s, 1, 0)

Base62Decode(s) == Base62DecodeLoop(s, 1, 0)

RECURSIVE Base64EncodeLoop(_, _)
Base64EncodeLoop(n, result) ==
    IF n > 0
    THEN Base64EncodeLoop(n \div 64, <<base64Chars[(n % 64) + 1]>> \o result)
    ELSE result

Base64Encode(n) == IF n = 0 THEN <<"0">> ELSE Base64EncodeLoop(n, <<>>)

RECURSIVE Base64DecodeLoop(_, _, _)
Base64DecodeLoop(s, i, result) ==
    IF i > Len(s)
    THEN [value |-> result, err |-> "nil"]
    ELSE LET index == IndexByte(base64Chars, s[i])
         IN  IF index = -1
             THEN [value |-> 0, err |-> "ErrInvalidBase"]
             ELSE Base64DecodeLoop(s, i + 1, result * 64 + index)

\* (mutant) the empty string is rejected.
Base64DecodeMutantEmptyInvalid(s) ==
    IF Len(s) = 0 THEN [value |-> 0, err |-> "ErrInvalidBase"] ELSE Base64DecodeLoop(s, 1, 0)

Base64Decode(s) == Base64DecodeLoop(s, 1, 0)

\* The BaseConverter interface: the two implementations.
BaseConverters == {"Base62Converter", "Base64Converter"}

Encode(b, n) == IF b = "Base62Converter" THEN Base62Encode(n) ELSE Base64Encode(n)

Decode(b, s) == IF b = "Base62Converter" THEN Base62Decode(s) ELSE Base64Decode(s)

\* NextKey: the id NextID returned, encoded with the engine's codec; an error of
\* NextID is returned unchanged with the empty string.  r is what NextID returned.
NextKey(r) ==
    IF r.err # "nil"
    THEN [key |-> <<>>, err |-> r.err]
    ELSE [key |-> Encode(base, r.id), err |-> "nil"]

\* ----------------------------------------------------------------- NextID
\* The caller holds an engine (newWithSettings returned one) and calls NextID;
\* kf.mutex.Lock() blocks until the mutex is free.
LockMutantNoMutex(c) ==
    /\ newCall.pc = "built"
    /\ pc[c] = "idle"
    /\ perG = 0 \/ calls[c] < perG
    /\ mutex' = [mutex EXCEPT ![eng[c]] = c]
    /\ pc' = [pc EXCEPT ![c] = "locked"]
    /\ UNCHANGED <<settingVars, clusterId, machineId, elapsedTime, sequence, now,
                   clockStep, eng, overtime, sleepTime, perG, calls, ids, observerVars, pureVars>>

Lock(c) ==
    /\ newCall.pc = "built"
    /\ pc[c] = "idle"
    /\ perG = 0 \/ calls[c] < perG
    /\ mutex[eng[c]] = 0
    /\ mutex' = [mutex EXCEPT ![eng[c]] = c]
    /\ pc' = [pc EXCEPT ![c] = "locked"]
    /\ UNCHANGED <<settingVars, clusterId, machineId, elapsedTime, sequence, now,
                   clockStep, eng, overtime, sleepTime, perG, calls, ids, observerVars, pureVars>>

\* (mutant) the mutex is released on the success path only: no deferred Unlock, and
\* the error return leaves without unlocking.
ReturnMutantKeepsLockOnError(c, e, tick, seq) ==
    LET r == toID(tick, seq, clusterId[e], machineId[e])
        rec == [id |-> r.id, tick |-> tick, seq |-> seq, engine |-> e]
    IN  /\ mutex' = [mutex EXCEPT ![e] = IF r.err # "nil" THEN @ ELSE 0]
        /\ pc' = [pc EXCEPT ![c] = "idle"]
        /\ calls' = [calls EXCEPT ![c] = IF perG = 0 THEN @ ELSE @ + 1]
        /\ ids' = [ids EXCEPT ![c] = IF perG = 0 \/ r.err # "nil" THEN @ ELSE @ + 1]
        /\ out' = [id |-> r.id, err |-> r.err]
        /\ key' = NextKey(r)
        /\ IF r.err = "nil"
           THEN marked' \in IF marked = NoID THEN {NoID, rec} ELSE {marked}
           ELSE UNCHANGED marked
        /\ sameTick' = IF sameTick >= 0 /\ r.err = "nil" /\ marked' # NoID /\ marked'.engine = e
                          /\ marked'.tick = tick /\ sameTick <= 2 ^ bitsSequence
                       THEN sameTick + 1
                       ELSE sameTick

\* The end of a call: toID on the fields as the call left them (tick, seq), the
\* deferred Unlock, the return to the caller.
Return(c, e, tick, seq) ==
    LET r == toID(tick, seq, clusterId[e], machineId[e])
        rec == [id |-> r.id, tick |-> tick, seq |-> seq, engine |-> e]
    IN  /\ mutex' = [mutex EXCEPT ![e] = 0]
        /\ pc' = [pc EXCEPT ![c] = "idle"]
        /\ calls' = [calls EXCEPT ![c] = IF perG = 0 THEN @ ELSE @ + 1]
        /\ ids' = [ids EXCEPT ![c] = IF perG = 0 \/ r.err # "nil" THEN @ ELSE @ + 1]
        /\ out' = [id |-> r.id, err |-> r.err]
        /\ key' = NextKey(r)
        /\ IF r.err = "nil"
           THEN marked' \in IF marked = NoID THEN {NoID, rec} ELSE {marked}
           ELSE UNCHANGED marked
        /\ sameTick' = IF sameTick >= 0 /\ r.err = "nil" /\ marked' # NoID /\ marked'.engine = e
                          /\ marked'.tick = tick /\ sameTick <= 2 ^ bitsSequence
                       THEN sameTick + 1
                       ELSE sameTick

\* Lines 142-153 up to the call of kf.sleep, and lines 155-156 when there is no sleep.
Update(c) ==
    LET e == eng[c]
        current == currentElapsedTime(Reading)
    IN  /\ pc[c] = "locked"
        /\ Reading <= MaxNow
        /\ now' = Reading
        /\ IF elapsedTime[e] < current
           THEN /\ elapsedTime' = [elapsedTime EXCEPT ![e] = current]
                /\ sequence' = [sequence EXCEPT ![e] = 0]
                /\ UNCHANGED <<overtime, sleepTime>>
                /\ Return(c, e, current, 0)
           ELSE LET seq == BitAnd(U64(sequence[e] + 1), sequenceMask)
                IN  /\ sequence' = [sequence EXCEPT ![e] = seq]
                    /\ IF seq = 0
                       THEN /\ elapsedTime' = [elapsedTime EXCEPT ![e] = U64(@ + 1)]
                            /\ overtime' = [overtime EXCEPT ![c] =
                                               U64(U64(elapsedTime[e] + 1) - current)]
                            /\ pc' = [pc EXCEPT ![c] = "sleep"]
                            /\ UNCHANGED <<mutex, sleepTime, calls, ids, observerVars>>
                       ELSE /\ UNCHANGED <<elapsedTime, overtime, sleepTime>>
                            /\ Return(c, e, elapsedTime[e], seq)
        /\ UNCHANGED <<settingVars, clusterId, machineId, clockStep, eng, perG, pureVars>>

\* (mutant) the part of the tick that has passed is not subtracted.
SleepMutantWholeTicks(c) ==
    /\ pc[c] = "sleep"
    /\ Reading <= MaxNow
    /\ now' = Reading
    /\ sleepTime' = [sleepTime EXCEPT ![c] = I64(I64(overtime[c]) * timeUnit)]
    /\ pc' = [pc EXCEPT ![c] = "asleep"]
    /\ UNCHANGED <<settingVars, engineVars, clockStep, eng, overtime, perG, calls, ids, observerVars, pureVars>>

\* (mutant) the sleep lasts the part of the tick that has passed, not the part that
\* is left.
SleepMutantElapsedPart(c) ==
    /\ pc[c] = "sleep"
    /\ Reading <= MaxNow
    /\ now' = Reading
    /\ sleepTime' = [sleepTime EXCEPT ![c] =
                        I64(I64(I64(overtime[c] - 1) * timeUnit) + (Reading % timeUnit))]
    /\ pc' = [pc EXCEPT ![c] = "asleep"]
    /\ UNCHANGED <<settingVars, engineVars, clockStep, eng, overtime, perG, calls, ids, observerVars, pureVars>>

\* kf.sleep: reads the clock again and calls time.Sleep with the computed duration
\* (int64 arithmetic), holding the mutex.
Sleep(c) ==
    /\ pc[c] = "sleep"
    /\ Reading <= MaxNow
    /\ now' = Reading
    /\ sleepTime' = [sleepTime EXCEPT ![c] =
                        I64(I64(I64(overtime[c]) * timeUnit) - (Reading % timeUnit))]
    /\ pc' = [pc EXCEPT ![c] = "asleep"]
    /\ UNCHANGED <<settingVars, engineVars, clockStep, eng, overtime, perG, calls, ids, observerVars, pureVars>>

\* time.Sleep returns; NextID goes on to toID and returns.
Wake(c) ==
    /\ pc[c] = "asleep"
    /\ overtime' = [overtime EXCEPT ![c] = 0]
    /\ sleepTime' = [sleepTime EXCEPT ![c] = 0]
    /\ UNCHANGED <<elapsedTime, sequence>>
    /\ Return(c, eng[c], elapsedTime[eng[c]], sequence[eng[c]])
    /\ UNCHANGED <<settingVars, clusterId, machineId, now, clockStep, eng, perG, pureVars>>

\* The wall clock moves on its own: forward, or back (a clock adjustment).
ClockStep ==
    /\ clockStep = 0
    /\ \E t \in 0..MaxNow : t # now /\ now' = t
    /\ UNCHANGED <<settingVars, engineVars, clockStep, callerVars, observerVars, pureVars>>

\* ------------------------------------------------------------ construction
\* newWithSettings: the fields after a successful construction.
newWithSettings(layout, unit, epoch, provided) ==
    /\ bitsSequence = layout.BitsSequence
    /\ bitsCluster = layout.BitsCluster
    /\ bitsMachine = layout.BitsMachine
    /\ timeUnit = unit
    /\ epochTime = epoch
    /\ clusterId = [e \in Engines |-> provided[e].cluster]
    /\ machineId = [e \in Engines |-> provided[e].machine]
    /\ elapsedTime = [e \in Engines |-> 0]
    /\ sequence = [e \in Engines |-> 0]
    /\ mutex = [e \in Engines |-> 0]
    /\ newCall = [pc |-> "built"]

\* The callers before their first call; counting says whether the ids of one tick
\* are counted.
CallersIdle(engineOf, n, counting) ==
    /\ eng = engineOf
    /\ pc = [c \in Callers |-> "idle"]
    /\ overtime = [c \in Callers |-> 0]
    /\ sleepTime = [c \in Callers |-> 0]
    /\ perG = n
    /\ calls = [c \in Callers |-> 0]
    /\ ids = [c \in Callers |-> 0]
    /\ out = [id |-> 0, err |-> "nil"]
    /\ key = [key |-> <<>>, err |-> "nil"]
    /\ marked = NoID
    /\ sameTick = IF counting THEN 0 ELSE -1

IdleCallers(engineOf, n) == CallersIdle(engineOf, n, FALSE)

\* No codec or Compose call is under way.
NoPureCall ==
    /\ codec = [pc |-> "none"]
    /\ compose = [pc |-> "none"]

\* One engine shared by all callers, under a wall clock that may move any way; the
\* providers return in-range ids, as validSettings() of the tests does.  Engine 2 is
\* not used.
Init ==
    /\ \E layout \in Layouts, cl \in {0, 1} :
          newWithSettings(layout, 2, 3,
                          [e \in Engines |-> IF e = 1 THEN [cluster |-> cl, machine |-> 1]
                                             ELSE [cluster |-> 0, machine |-> 0]])
    /\ base = "Base62Converter"
    /\ now \in 0..MaxNow
    /\ clockStep = 0
    /\ IdleCallers([c \in Callers |-> 1], 0)
    /\ NoPureCall

Next ==
    \/ \E c \in Callers : Lock(c)
    \/ \E c \in Callers : Update(c)
    \/ \E c \in Callers : Sleep(c)
    \/ \E c \in Callers : Wake(c)
    \/ ClockStep

Spec == Init /\ [][Next]_vars

\* The scenario of TestNextID_MonotonicSequential / TestNextID_MonotonicParallel: one
\* engine, a stepClock that advances by clockStep on every reading and starts at or
\* after the epoch, every caller making MaxCalls calls.  The providers are any
\* func() (int, error).
InitStep ==
    /\ \E layout \in Layouts, cl \in ProviderInts, mc \in ProviderInts :
          newWithSettings(layout, 4, 2,
                          [e \in Engines |-> IF e = 1 THEN [cluster |-> cl, machine |-> mc]
                                             ELSE [cluster |-> 0, machine |-> 0]])
    /\ base \in BaseConverters
    /\ now \in 2..3
    /\ clockStep \in 1..2
    /\ IdleCallers([c \in Callers |-> 1], MaxCalls)
    /\ NoPureCall

NextStep ==
    \/ \E c \in Callers : Lock(c)
    \/ \E c \in Callers : Update(c)
    \/ \E c \in Callers : Sleep(c)
    \/ \E c \in Callers : Wake(c)

SpecStep == InitStep /\ [][NextStep]_vars

\* Two engines built from the same Settings but for the providers, which returned
\* distinct (cluster id, machine id) pairs: engine 2 got the in-range pair (1, 0),
\* engine 1 any other pair of ints.  Caller e calls engine e, under a wall clock that
\* may move any way.
InitTwo ==
    /\ \E layout \in Layouts, cl1 \in ProviderInts, mc1 \in ProviderInts,
          cl2 \in {1}, mc2 \in {0} :
          /\ <<cl1, mc1>> # <<cl2, mc2>>
          /\ newWithSettings(layout, 2, 3,
                          [e \in Engines |-> IF e = 1 THEN [cluster |-> cl1, machine |-> mc1]
                                             ELSE [cluster |-> cl2, machine |-> mc2]])
    /\ base = "Base62Converter"
    /\ now \in 0..MaxNow
    /\ clockStep = 0
    /\ IdleCallers([c \in Callers |-> c], MaxCalls)
    /\ NoPureCall

SpecTwo == InitTwo /\ [][Next]_vars

\* One engine with either codec shared by all callers under a wall clock that may
\* move any way, the ids of one tick being counted.
InitCount ==
    /\ \E layout \in Layouts :
          newWithSettings(layout, 2, 3,
                          [e \in Engines |-> IF e = 1 THEN [cluster |-> 1, machine |-> 1]
                                             ELSE [cluster |-> 0, machine |-> 0]])
    /\ base \in BaseConverters
    /\ now \in 0..MaxNow
    /\ clockStep = 0
    /\ CallersIdle([c \in Callers |-> 1], 0, TRUE)
    /\ NoPureCall

SpecCount == InitCount /\ [][Next]_vars

\* A wall clock that only moves forward.
ClockForward ==
    /\ clockStep = 0
    /\ \E t \in (now + 1)..MaxNow : now' = t
    /\ UNCHANGED <<settingVars, engineVars, clockStep, callerVars, observerVars, pureVars>>

\* ------------------------------------------------------------- fair callers
\* TestNextID_MonotonicParallel under a wall clock that starts anywhere, before the
\* epoch included, and moves forward at any pace or not at all: every caller makes
\* MaxCalls calls on the shared engine.  A goroutine that is inside NextID keeps
\* running (it reads the clock, computes, and every time.Sleep ends), and a goroutine
\* that waits in kf.mutex.Lock() gets the mutex if it is released again and again
\* (sync.Mutex hands the mutex to a waiter that has been starved).
InitLive ==
    /\ \E layout \in Layouts :
          newWithSettings(layout, 2, 3,
                          [e \in Engines |-> IF e = 1 THEN [cluster |-> 1, machine |-> 1]
                                             ELSE [cluster |-> 0, machine |-> 0]])
    /\ base = "Base62Converter"
    /\ now \in 0..MaxNow
    /\ clockStep = 0
    /\ IdleCallers([c \in Callers |-> 1], MaxCalls)
    /\ NoPureCall

Fairness ==
    \A c \in Callers :
        /\ SF_vars(Lock(c))
        /\ WF_vars(Update(c))
        /\ WF_vars(Sleep(c))
        /\ WF_vars(Wake(c))

NextLive ==
    \/ \E c \in Callers : Lock(c)
    \/ \E c \in Callers : Update(c)
    \/ \E c \in Callers : Sleep(c)
    \/ \E c \in Callers : Wake(c)
    \/ ClockForward

SpecLive == InitLive /\ [][NextLive]_vars /\ Fairness

\* ------------------------------------------------------- normal operation
\* time.Sleep returns after at least the duration it was given, and the wall clock
\* has moved on by the time slept; NextID goes on to toID and returns.
WakeSlept(c) ==
    /\ pc[c] = "asleep"
    /\ \E t \in now..MaxNow : t >= now + sleepTime[c] /\ now' = t
    /\ overtime' = [overtime EXCEPT ![c] = 0]
    /\ sleepTime' = [sleepTime EXCEPT ![c] = 0]
    /\ UNCHANGED <<elapsedTime, sequence>>
    /\ Return(c, eng[c], elapsedTime[eng[c]], sequence[eng[c]])
    /\ UNCHANGED <<settingVars, clusterId, machineId, clockStep, eng, perG, pureVars>>

\* Time units of the normal-operation scenario (nanoseconds): with epoch 3 the epoch
\* is and is not a whole number of time units.
NormalTimeUnits == {2, 3}

\* One engine shared by all callers under a wall clock that starts at or after the
\* epoch, never goes back, and advances while a caller sleeps.
InitNormal ==
    /\ \E layout \in Layouts, unit \in NormalTimeUnits :
          newWithSettings(layout, unit, 3,
                          [e \in Engines |-> IF e = 1 THEN [cluster |-> 1, machine |-> 1]
                                             ELSE [cluster |-> 0, machine |-> 0]])
    /\ base = "Base62Converter"
    /\ now \in 3..MaxNow
    /\ clockStep = 0
    /\ IdleCallers([c \in Callers |-> 1], 0)
    /\ NoPureCall

NextNormal ==
    \/ \E c \in Callers : Lock(c)
    \/ \E c \in Callers : Update(c)
    \/ \E c \in Callers : Sleep(c)
    \/ \E c \in Callers : WakeSlept(c)
    \/ ClockForward

SpecNormal == InitNormal /\ [][NextNormal]_vars

\* ============================================================= codec calls
\* s := b.Encode(v)
CodecEncode ==
    /\ codec.pc = "start"
    /\ codec' = [codec EXCEPT !.key = Encode(codec.base, codec.n), !.pc = "encoded"]
    /\ UNCHANGED <<settingVars, engineVars, now, clockStep, callerVars, observerVars, compose, newCall>>

\* got, err := b.Decode(s)
CodecDecode ==
    /\ codec.pc = "encoded"
    /\ LET r == Decode(codec.base, codec.key)
       IN  codec' = [codec EXCEPT !.value = r.value, !.err = r.err, !.pc = "decoded"]
    /\ UNCHANGED <<settingVars, engineVars, now, clockStep, callerVars, observerVars, compose, newCall>>

\* An engine that issues nothing: only its layout, time unit and epoch are read.
QuietEngine(layout, unit, epoch) ==
    /\ newWithSettings(layout, unit, epoch, [e \in Engines |-> [cluster |-> 0, machine |-> 0]])
    /\ base = "Base62Converter"
    /\ now = 0
    /\ clockStep = 0
    /\ IdleCallers([c \in Callers |-> 1], 0)

\* The round trip of TestBase62_EncodeDecode_RoundTrip, for every value up to MaxValue
\* and both converters.
InitCodec ==
    /\ QuietEngine([BitsSequence |-> 2, BitsCluster |-> 1, BitsMachine |-> 1], 2, 3)
    /\ \E b \in BaseConverters, n \in 0..MaxValue :
          codec = [base |-> b, n |-> n, key |-> <<>>, value |-> 0, err |-> "nil",
                   pc |-> "start"]
    /\ compose = [pc |-> "none"]

NextCodec == CodecEncode \/ CodecDecode

SpecCodec == InitCodec /\ [][NextCodec]_vars

\* ======================================================== Compose / Decompose
ComposeMutantSequenceShift(t, seq, machineID, cluster) ==
    LET internalTime == toInternalTime(t)
        elapsed == U64(internalTime - startTime)
    IN  IF internalTime < startTime THEN [id |-> 0, err |-> "ErrStartTimeAhead"]
        ELSE IF elapsed >= 2 ^ bitsTime THEN [id |-> 0, err |-> "errOverTimeLimit"]
        ELSE IF seq < 0 \/ seq >= 2 ^ bitsSequence THEN [id |-> 0, err |-> "errInvalidSequence"]
        ELSE IF cluster < 0 \/ cluster >= 2 ^ bitsCluster
             THEN [id |-> 0, err |-> "errInvalidClusterID"]
        ELSE IF machineID < 0 \/ machineID >= 2 ^ bitsMachine
             THEN [id |-> 0, err |-> "errInvalidMachineID"]
        ELSE [id |-> BitOr(BitOr(BitOr(Shl(elapsed, bitsSequence + bitsMachine + bitsCluster),
                                       Shl(U64(seq), bitsMachine)),
                                 Shl(U64(cluster), bitsMachine)),
                           U64(machineID)),
              err |-> "nil"]

ComposeMutantMachineBoundary(t, seq, machineID, cluster) ==
    LET internalTime == toInternalTime(t)
        elapsed == U64(internalTime - startTime)
    IN  IF internalTime < startTime THEN [id |-> 0, err |-> "ErrStartTimeAhead"]
        ELSE IF elapsed >= 2 ^ bitsTime THEN [id |-> 0, err |-> "errOverTimeLimit"]
        ELSE IF seq < 0 \/ seq >= 2 ^ bitsSequence THEN [id |-> 0, err |-> "errInvalidSequence"]
        ELSE IF cluster < 0 \/ cluster >= 2 ^ bitsCluster
             THEN [id |-> 0, err |-> "errInvalidClusterID"]
        ELSE IF machineID < 0 \/ machineID > 2 ^ bitsMachine
             THEN [id |-> 0, err |-> "errInvalidMachineID"]
        ELSE [id |-> BitOr(BitOr(BitOr(Shl(elapsed, bitsSequence + bitsMachine + bitsCluster),
                                       Shl(U64(seq), bitsMachine + bitsCluster)),
                                 Shl(U64(cluster), bitsMachine)),
                           U64(machineID)),
              err |-> "nil"]

Compose(t, seq, machineID, cluster) ==
    LET internalTime == toInternalTime(t)
        elapsed == U64(internalTime - startTime)
    IN  IF internalTime < startTime THEN [id |-> 0, err |-> "ErrStartTimeAhead"]
        ELSE IF elapsed >= 2 ^ bitsTime THEN [id |-> 0, err |-> "errOverTimeLimit"]
        ELSE IF seq < 0 \/ seq >= 2 ^ bitsSequence THEN [id |-> 0, err |-> "errInvalidSequence"]
        ELSE IF cluster < 0 \/ cluster >= 2 ^ bitsCluster
             THEN [id |-> 0, err |-> "errInvalidClusterID"]
        ELSE IF machineID < 0 \/ machineID >= 2 ^ bitsMachine
             THEN [id |-> 0, err |-> "errInvalidMachineID"]
        ELSE [id |-> BitOr(BitOr(BitOr(Shl(elapsed, bitsSequence + bitsMachine + bitsCluster),
                                       Shl(U64(seq), bitsMachine + bitsCluster)),
                                 Shl(U64(cluster), bitsMachine)),
                           U64(machineID)),
              err |-> "nil"]

\* id, err := kf.Compose(tm, seq, mc, cl)
ComposeCall ==
    /\ newCall.pc = "built"
    /\ compose.pc = "start"
    /\ LET r == Compose(compose.t, compose.sequence, compose.machineID, compose.clusterId)
       IN  compose' = [compose EXCEPT !.id = r.id, !.err = r.err, !.pc = "composed"]
    /\ UNCHANGED <<settingVars, engineVars, now, clockStep, callerVars, observerVars, codec, newCall>>

\* parts := kf.Decompose(id), on the id Compose returned.
DecomposeCall ==
    /\ compose.pc = "composed"
    /\ compose.err = "nil"
    /\ compose' = [compose EXCEPT !.parts = Decompose(compose.id), !.pc = "decomposed"]
    /\ UNCHANGED <<settingVars, engineVars, now, clockStep, callerVars, observerVars, codec, newCall>>

\* Time units and epochs of the Compose scenarios (nanoseconds): epochs that are and
\* are not a whole number of time units.
ComposeTimeUnits == {1, 2, 4}
ComposeEpochs == {2, 3}

\* TestComposeDecompose_RoundTrip for every layout, time unit and epoch, and for
\* arguments in and just outside their ranges.
InitCompose ==
    /\ \E layout \in Layouts, unit \in ComposeTimeUnits, epoch \in ComposeEpochs :
          QuietEngine(layout, unit, epoch)
    /\ codec = [pc |-> "none"]
    /\ \E t \in 0..MaxNow, seq \in -1..4, mc \in -1..4, cl \in -1..2 :
          compose = [t |-> t, sequence |-> seq, machineID |-> mc, clusterId |-> cl,
                     id |-> 0, err |-> "nil",
                     parts |-> [Timestamp |-> 0, Sequence |-> 0, MachineID |-> 0, ClusterID |-> 0],
                     pc |-> "start"]

NextCompose == ComposeCall \/ DecomposeCall

SpecCompose == InitCompose /\ [][NextCompose]_vars

\* Decompose called on an arbitrary id (any word), as DecomposeKey does with whatever
\* the codec decoded: every layout, every 64-bit value.
InitDecompose ==
    /\ \E layout \in Layouts : QuietEngine(layout, 2, 3)
    /\ codec = [pc |-> "none"]
    /\ \E id \in 0..(Word - 1) :
          compose = [t |-> 0, sequence |-> 0, machineID |-> 0, clusterId |-> 0,
                     id |-> id, err |-> "nil",
                     parts |-> [Timestamp |-> 0, Sequence |-> 0, MachineID |-> 0, ClusterID |-> 0],
                     pc |-> "composed"]

NextDecompose == DecomposeCall

SpecDecompose == InitDecompose /\ [][NextDecompose]_vars

\* ================================================== ComposeKey / DecomposeKey
ComposeKey(t, seq, machineID, cluster) ==
    LET r == Compose(t, seq, machineID, cluster)
    IN  IF r.err # "nil"
        THEN [key |-> <<>>, err |-> r.err]
        ELSE [key |-> Encode(base, r.id), err |-> "nil"]

\* DecomposeKey: Decode, then Decompose of the decoded uint64 (Decode's arithmetic is
\* on uint64, so its result is a word).  No parts are returned with an error.
DecomposeKey(k) ==
    LET r == Decode(base, k)
    IN  IF r.err # "nil"
        THEN [parts |-> "nil", err |-> r.err]
        ELSE [parts |-> Decompose(U64(r.value)), err |-> "nil"]

\* (mutant) ComposeKey takes the engine's mutex: it waits while a NextID call holds it.
ComposeKeyCallMutantLocks ==
    /\ newCall.pc = "built"
    /\ compose.pc = "start"
    /\ mutex[1] = 0
    /\ LET r == ComposeKey(compose.t, compose.sequence, compose.machineID, compose.clusterId)
       IN  compose' = [compose EXCEPT !.key = r.key, !.err = r.err, !.pc = "keyed"]
    /\ UNCHANGED <<settingVars, engineVars, now, clockStep, callerVars, observerVars, codec, newCall>>

\* key, err := kf.ComposeKey(tm, seq, mc, cl)
ComposeKeyCall ==
    /\ newCall.pc = "built"
    /\ compose.pc = "start"
    /\ LET r == ComposeKey(compose.t, compose.sequence, compose.machineID, compose.clusterId)
       IN  compose' = [compose EXCEPT !.key = r.key, !.err = r.err, !.pc = "keyed"]
    /\ UNCHANGED <<settingVars, engineVars, now, clockStep, callerVars, observerVars, codec, newCall>>

\* parts, err := kf.DecomposeKey(key), on the key at hand.
DecomposeKeyCall ==
    /\ newCall.pc = "built"
    /\ compose.pc = "keyed"
    /\ compose.err = "nil"
    /\ LET r == DecomposeKey(compose.key)
       IN  compose' = [compose EXCEPT !.parts = r.parts, !.err = r.err, !.pc = "unkeyed"]
    /\ UNCHANGED <<settingVars, engineVars, now, clockStep, callerVars, observerVars, codec, newCall>>

\* TestComposeKeyDecomposeKey_RoundTrip for every layout, time unit, epoch and codec,
\* and for arguments in and just outside their ranges.
InitKeys ==
    /\ \E layout \in Layouts, unit \in ComposeTimeUnits, epoch \in ComposeEpochs :
          newWithSettings(layout, unit, epoch,
                          [e \in Engines |-> [cluster |-> 0, machine |-> 0]])
    /\ base \in BaseConverters
    /\ now = 0
    /\ clockStep = 0
    /\ IdleCallers([c \in Callers |-> 1], 0)
    /\ codec = [pc |-> "none"]
    /\ \E t \in 0..MaxNow, seq \in -1..2, mc \in -1..2, cl \in -1..2 :
          compose = [t |-> t, sequence |-> seq, machineID |-> mc, clusterId |-> cl,
                     key |-> <<>>, err |-> "nil",
                     parts |-> [Timestamp |-> 0, Sequence |-> 0, MachineID |-> 0, ClusterID |-> 0],
                     pc |-> "start"]

NextKeys == ComposeKeyCall \/ DecomposeKeyCall

SpecKeys == InitKeys /\ [][NextKeys]_vars

\* Keys from outside: every string of up to MaxKeyLen characters over characters of
\* both alphabets ("0", "A", "z"), of the 64-alphabet only ("+") and of neither ("!").
MaxKeyLen == 3

KeyChars == {"0", "A", "z", "+", "!"}

KeyStrings == UNION {[1..k -> KeyChars] : k \in 0..MaxKeyLen}

\* TestDecomposeKey_InvalidBase for every such key and both codecs: the key is passed
\* to the codec's Decode and to DecomposeKey.
InitAnyKey ==
    /\ newWithSettings([BitsSequence |-> 2, BitsCluster |-> 1, BitsMachine |-> 1], 2, 3,
                       [e \in Engines |-> [cluster |-> 0, machine |-> 0]])
    /\ base \in BaseConverters
    /\ now = 0
    /\ clockStep = 0
    /\ IdleCallers([c \in Callers |-> 1], 0)
    /\ \E k \in KeyStrings :
          /\ codec = [base |-> base, n |-> 0, key |-> k, value |-> 0, err |-> "nil",
                      pc |-> "encoded"]
          /\ compose = [t |-> 0, sequence |-> 0, machineID |-> 0, clusterId |-> 0,
                        key |-> k, err |-> "nil",
                        parts |-> [Timestamp |-> 0, Sequence |-> 0, MachineID |-> 0, ClusterID |-> 0],
                        pc |-> "keyed"]

NextAnyKey == CodecDecode \/ DecomposeKeyCall

SpecAnyKey == InitAnyKey /\ [][NextAnyKey]_vars

\* ===================================================== pure calls beside NextID
\* One engine on which two callers call NextID once each (the second call exhausts
\* the one-bit sequence and sleeps), while Compose and Decompose, or ComposeKey and
\* DecomposeKey, and the codec's Encode and Decode are called from elsewhere at any
\* moment: before, during and after the NextID calls.
InitPure ==
    /\ newWithSettings([BitsSequence |-> 1, BitsCluster |-> 1, BitsMachine |-> 1], 2, 3,
                       [e \in Engines |-> IF e = 1 THEN [cluster |-> 1, machine |-> 1]
                                          ELSE [cluster |-> 0, machine |-> 0]])
    /\ base \in BaseConverters
    /\ now \in 3..5
    /\ clockStep = 0
    /\ IdleCallers([c \in Callers |-> 1], 1)
    /\ \E n \in {0, 5} :
          codec = [base |-> base, n |-> n, key |-> <<>>, value |-> 0, err |-> "nil",
                   pc |-> "start"]
    /\ \E t \in {3, 5}, seq \in {0, 1} :
          compose = [t |-> t, sequence |-> seq, machineID |-> 1, clusterId |-> 1,
                     id |-> 0, key |-> <<>>, err |-> "nil",
                     parts |-> [Timestamp |-> 0, Sequence |-> 0, MachineID |-> 0, ClusterID |-> 0],
                     pc |-> "start"]

NextPure ==
    \/ \E c \in Callers : Lock(c)
    \/ \E c \in Callers : Update(c)
    \/ \E c \in Callers : Sleep(c)
    \/ \E c \in Callers : Wake(c)
    \/ ComposeCall
    \/ DecomposeCall
    \/ ComposeKeyCall
    \/ DecomposeKeyCall
    \/ CodecEncode
    \/ CodecDecode

SpecPure == InitPure /\ [][NextPure]_vars

\* ============================================================ newWithSettings
\* Validate compares the Settings' widths with the package's limits; these are plain
\* int comparisons, so they are modelled at the source's values (the derived time
\* width is 64 minus the three widths).  Durations and instants are nanoseconds.
MinTimeBits == 30
MinSequenceBits == 8
MaxSequenceBits == 30
MinClusterBits == 2
MaxClusterBits == 8
MaxMachineBits == 16
MinMachineBits == 3

\* time.Millisecond
Millisecond == 1000000

DefaultTimeUnit == 10 * Millisecond

ValidateMutantClusterBeforeMachine(s) ==
    IF s.BitsSequence < MinSequenceBits \/ s.BitsSequence > MaxSequenceBits
    THEN "ErrInvalidBitsSequence"
    ELSE IF s.BitsCluster < MinClusterBits \/ s.BitsCluster > MaxClusterBits
    THEN "ErrInvalidBitsClusterID"
    ELSE IF s.BitsMachine < MinMachineBits \/ s.BitsMachine > MaxMachineBits
    THEN "ErrInvalidBitsMachineID"
    ELSE IF s.TimeUnit < 0 \/ (s.TimeUnit > 0 /\ s.TimeUnit < Millisecond)
    THEN "ErrInvalidTimeUnit"
    ELSE IF s.EpochTime > now
    THEN "ErrStartTimeAhead"
    ELSE IF 64 - s.BitsCluster - s.BitsMachine - s.BitsSequence < MinTimeBits
    THEN "ErrInvalidBitsTime"
    ELSE "nil"

ValidateMutantMachineMax(s) ==
    IF s.BitsSequence < MinSequenceBits \/ s.BitsSequence > MaxSequenceBits
    THEN "ErrInvalidBitsSequence"
    ELSE IF s.BitsMachine < MinMachineBits \/ s.BitsMachine > MaxMachineBits + 1
    THEN "ErrInvalidBitsMachineID"
    ELSE IF s.BitsCluster < MinClusterBits \/ s.BitsCluster > MaxClusterBits
    THEN "ErrInvalidBitsClusterID"
    ELSE IF s.TimeUnit < 0 \/ (s.TimeUnit > 0 /\ s.TimeUnit < Millisecond)
    THEN "ErrInvalidTimeUnit"
    ELSE IF s.EpochTime > now
    THEN "ErrStartTimeAhead"
    ELSE IF 64 - s.BitsCluster - s.BitsMachine - s.BitsSequence < MinTimeBits
    THEN "ErrInvalidBitsTime"
    ELSE "nil"

\* Settings.Validate; s.EpochTime.After(time.Now()) reads the wall clock.
Validate(s) ==
    IF s.BitsSequence < MinSequenceBits \/ s.BitsSequence > MaxSequenceBits
    THEN "ErrInvalidBitsSequence"
    ELSE IF s.BitsMachine < MinMachineBits \/ s.BitsMachine > MaxMachineBits
    THEN "ErrInvalidBitsMachineID"
    ELSE IF s.BitsCluster < MinClusterBits \/ s.BitsCluster > MaxClusterBits
    THEN "ErrInvalidBitsClusterID"
    ELSE IF s.TimeUnit < 0 \/ (s.TimeUnit > 0 /\ s.TimeUnit < Millisecond)
    THEN "ErrInvalidTimeUnit"
    ELSE IF s.EpochTime > now
    THEN "ErrStartTimeAhead"
    ELSE IF 64 - s.BitsCluster - s.BitsMachine - s.BitsSequence < MinTimeBits
    THEN "ErrInvalidBitsTime"
    ELSE "nil"

\* What a provider, a func() (int, error), returns: any int and no error, or an error.
ProviderErrors == {"errDummy", "errNoZone"}

ProviderResults ==
    [value : ProviderInts, err : {"nil"}] \cup [value : {0}, err : ProviderErrors]

NoResult == [value |-> 0, err |-> "none"]

\* Lines 81-95: Validate, then the fields taken from the Settings.  Line 90 divides
\* the epoch by the time unit just stored: with a time unit of 0 the integer division
\* panics and newWithSettings does not return.
newWithSettingsValidate ==
    /\ newCall.pc = "start"
    /\ LET s == newCall.settings
           err == Validate(s)
       IN  IF err # "nil"
           THEN /\ newCall' = [newCall EXCEPT !.pc = "failed", !.err = err]
                /\ UNCHANGED <<timeUnit, epochTime, base>>
           ELSE /\ base' = s.Base
                /\ timeUnit' = s.TimeUnit
                /\ IF s.TimeUnit = 0
                   THEN /\ newCall' = [newCall EXCEPT !.pc = "panicked"]
                        /\ UNCHANGED epochTime
                   ELSE /\ epochTime' = s.EpochTime
                        /\ newCall' = [newCall EXCEPT !.pc = "cluster"]
    /\ UNCHANGED <<bitsSequence, bitsCluster, bitsMachine, engineVars, now, clockStep,
                   callerVars, observerVars, codec, compose>>

newWithSettingsClusterIdMutantCallsTwice ==
    /\ newCall.pc = "cluster"
    /\ \E r \in ProviderResults :
          /\ newCall' = [newCall EXCEPT !.clusterCalls = @ + 2, !.clusterRet = r,
                                        !.pc = IF r.err # "nil" THEN "failed" ELSE "machine",
                                        !.err = r.err]
          /\ clusterId' = [clusterId EXCEPT ![1] = IF r.err # "nil" THEN @ ELSE r.value]
    /\ UNCHANGED <<settingVars, machineId, elapsedTime, sequence, mutex, now, clockStep,
                   callerVars, observerVars, codec, compose>>

\* (mutant) the error of settings.ClusterId() is recorded but the construction goes on
\* to settings.MachineId().
newWithSettingsClusterIdMutantGoesOn ==
    /\ newCall.pc = "cluster"
    /\ \E r \in ProviderResults :
          /\ newCall' = [newCall EXCEPT !.clusterCalls = @ + 1, !.clusterRet = r,
                                        !.pc = "machine", !.err = r.err]
          /\ clusterId' = [clusterId EXCEPT ![1] = IF r.err # "nil" THEN @ ELSE r.value]
    /\ UNCHANGED <<settingVars, machineId, elapsedTime, sequence, mutex, now, clockStep,
                   callerVars, observerVars, codec, compose>>

\* Lines 97-101: settings.ClusterId() is called; its error ends the construction, its
\* value is stored as it is.
newWithSettingsClusterId ==
    /\ newCall.pc = "cluster"
    /\ \E r \in ProviderResults :
          /\ newCall' = [newCall EXCEPT !.clusterCalls = @ + 1, !.clusterRet = r,
                                        !.pc = IF r.err # "nil" THEN "failed" ELSE "machine",
                                        !.err = r.err]
          /\ clusterId' = [clusterId EXCEPT ![1] = IF r.err # "nil" THEN @ ELSE r.value]
    /\ UNCHANGED <<settingVars, machineId, elapsedTime, sequence, mutex, now, clockStep,
                   callerVars, observerVars, codec, compose>>

newWithSettingsMachineIdMutantIgnoresError ==
    /\ newCall.pc = "machine"
    /\ \E r \in ProviderResults :
          /\ newCall' = [newCall EXCEPT !.machineCalls = @ + 1, !.machineRet = r,
                                        !.pc = "built", !.returned = "kf"]
          /\ machineId' = [machineId EXCEPT ![1] = r.value]
    /\ UNCHANGED <<settingVars, clusterId, elapsedTime, sequence, mutex, now, clockStep,
                   callerVars, observerVars, codec, compose>>

\* Lines 103-109: settings.MachineId() is called; its error ends the construction, its
\* value is stored as it is and the engine is returned.
newWithSettingsMachineId ==
    /\ newCall.pc = "machine"
    /\ \E r \in ProviderResults :
          /\ newCall' = [newCall EXCEPT !.machineCalls = @ + 1, !.machineRet = r,
                                        !.pc = IF r.err # "nil" THEN "failed" ELSE "built",
                                        !.err = r.err,
                                        !.returned = IF r.err # "nil" THEN "nil" ELSE "kf"]
          /\ machineId' = [machineId EXCEPT ![1] = IF r.err # "nil" THEN @ ELSE r.value]
    /\ UNCHANGED <<settingVars, clusterId, elapsedTime, sequence, mutex, now, clockStep,
                   callerVars, observerVars, codec, compose>>

\* The Settings of TestNew_ValidationErrors and more: every width at its limits and
\* one beyond them, a sequence width left at its zero value, time units around 0 and
\* around 1 ms, epochs around now.
SettingsBitsSequence ==
    {0, MinSequenceBits - 1, MinSequenceBits, MaxSequenceBits, MaxSequenceBits + 1}

SettingsBitsMachine ==
    {MinMachineBits - 1, MinMachineBits, MaxMachineBits, MaxMachineBits + 1}

SettingsBitsCluster ==
    {MinClusterBits - 1, MinClusterBits, MaxClusterBits, MaxClusterBits + 1}

SettingsTimeUnit == {-1, 0, Millisecond - 1, Millisecond, DefaultTimeUnit}

\* newWithSettings is called with any of these Settings at wall-clock instant 3; the
\* engine under construction is new(Kubeflake), all fields zero.  The widths of the
\* packing are the model's scaled ones, as everywhere: the layout variables hold the
\* image of the validated layout in the model's word.  Once the engine is returned,
\* two callers call NextID once each (the second call exhausts the sequence) and
\* Compose and Decompose are called.
InitNew ==
    /\ bitsSequence = 1 /\ bitsCluster = 1 /\ bitsMachine = 1
    /\ timeUnit = 0 /\ epochTime = 0 /\ base = "nil"
    /\ clusterId = [e \in Engines |-> 0]
    /\ machineId = [e \in Engines |-> 0]
    /\ elapsedTime = [e \in Engines |-> 0]
    /\ sequence = [e \in Engines |-> 0]
    /\ mutex = [e \in Engines |-> 0]
    /\ now = 3
    /\ clockStep = 0
    /\ IdleCallers([c \in Callers |-> 1], 1)
    /\ codec = [pc |-> "none"]
    /\ compose = [t |-> 3, sequence |-> 1, machineID |-> 1, clusterId |-> 1,
                  id |-> 0, err |-> "nil",
                  parts |-> [Timestamp |-> 0, Sequence |-> 0, MachineID |-> 0, ClusterID |-> 0],
                  pc |-> "start"]
    /\ \E bs \in SettingsBitsSequence, bm \in SettingsBitsMachine, bc \in SettingsBitsCluster,
          unit \in SettingsTimeUnit, epoch \in {now - 1, now, now + 1} :
          newCall = [settings |-> [BitsSequence |-> bs, BitsMachine |-> bm, BitsCluster |-> bc,
                                   TimeUnit |-> unit, EpochTime |-> epoch,
                                   Base |-> "Base62Converter"],
                     pc |-> "start", err |-> "nil", returned |-> "nil",
                     clusterCalls |-> 0, machineCalls |-> 0,
                     clusterRet |-> NoResult, machineRet |-> NoResult]

NextNew ==
    \/ newWithSettingsValidate
    \/ newWithSettingsClusterId
    \/ newWithSettingsMachineId
    \/ \E c \in Callers : Lock(c)
    \/ \E c \in Callers : Update(c)
    \/ \E c \in Callers : Sleep(c)
    \/ \E c \in Callers : Wake(c)
    \/ ComposeCall
    \/ DecomposeCall

SpecNew == InitNew /\ [][NextNew]_vars

\* ======================================================================== New
\* DefaultSettings: the widths and the time unit are the package's Default*
\* constants.  The default epoch (2025-01-01 00:00:00 UTC) is an instant in the past;
\* on the scale of the construction scenarios, whose wall clock shows instant 3, it is
\* instant 2.  The provider functions are outside the record: a provider step draws what
\* the function at hand returns, whether it is the default one or one set by an option.
DefaultBitsCluster == 3
DefaultBitsMachine == 13
DefaultBitsSequence == 9

defaultEpochTime == 2

DefaultSettings ==
    [BitsSequence |-> DefaultBitsSequence, BitsCluster |-> DefaultBitsCluster,
     BitsMachine |-> DefaultBitsMachine, TimeUnit |-> DefaultTimeUnit,
     Base |-> "Base62Converter", EpochTime |-> defaultEpochTime]

\* The options of v1/options.go that set a field of the Settings record, each with
\* arguments equal to and different from the package's and the documented defaults
\* (the key options take no argument: arg is 0).
GeneratorOptions ==
    [opt : {"WithSequenceBits"}, arg : {8, 10}]
    \cup [opt : {"WithClusterBits"}, arg : {4, 8}]
    \cup [opt : {"WithMachineBits"}, arg : {12, 16}]
    \cup [opt : {"WithTimeUnit"}, arg : {Millisecond}]
    \cup [opt : {"WithBase62Keys", "WithBase64Keys"}, arg : {0}]
    \cup [opt : {"WithEpoch"}, arg : {3}]

\* opt.apply(&s): the function the option holds, run on the settings.
apply(o, s) ==
    CASE o.opt = "WithSequenceBits" -> [s EXCEPT !.BitsSequence = o.arg]
      [] o.opt = "WithClusterBits" -> [s EXCEPT !.BitsCluster = o.arg]
      [] o.opt = "WithMachineBits" -> [s EXCEPT !.BitsMachine = o.arg]
      [] o.opt = "WithTimeUnit" -> [s EXCEPT !.TimeUnit = o.arg]
      [] o.opt = "WithBase62Keys" -> [s EXCEPT !.Base = "Base62Converter"]
      [] o.opt = "WithBase64Keys" -> [s EXCEPT !.Base = "Base64Converter"]
      [] o.opt = "WithEpoch" -> [s EXCEPT !.EpochTime = o.arg]

\* The loop of New: the options are applied in the order given, from option i on.
RECURSIVE ApplyOptions(_, _, _)
ApplyOptions(opts, i, s) ==
    IF i > Len(opts) THEN s ELSE ApplyOptions(opts, i + 1, apply(opts[i], s))

\* New up to its call of newWithSettings: s := DefaultSettings(), the options applied.
New ==
    /\ newCall.pc = "new"
    /\ newCall' = [newCall EXCEPT !.settings = ApplyOptions(newCall.opts, 1, DefaultSettings),
                                  !.pc = "start"]
    /\ UNCHANGED <<settingVars, engineVars, now, clockStep, callerVars, observerVars,
                   codec, compose>>

\* New is called at wall-clock instant 3 with no option, one option or two options.
MaxOptions == 2

InitOptions ==
    /\ bitsSequence = 1 /\ bitsCluster = 1 /\ bitsMachine = 1
    /\ timeUnit = 0 /\ epochTime = 0 /\ base = "nil"
    /\ clusterId = [e \in Engines |-> 0]
    /\ machineId = [e \in Engines |-> 0]
    /\ elapsedTime = [e \in Engines |-> 0]
    /\ sequence = [e \in Engines |-> 0]
    /\ mutex = [e \in Engines |-> 0]
    /\ now = 3
    /\ clockStep = 0
    /\ IdleCallers([c \in Callers |-> 1], 1)
    /\ NoPureCall
    /\ \E opts \in UNION {[1..k -> GeneratorOptions] : k \in 0..MaxOptions} :
          newCall = [opts |-> opts,
                     settings |-> [BitsSequence |-> 0, BitsMachine |-> 0, BitsCluster |-> 0,
                                   TimeUnit |-> 0, EpochTime |-> 0, Base |-> "nil"],
                     pc |-> "new", err |-> "nil", returned |-> "nil",
                     clusterCalls |-> 0, machineCalls |-> 0,
                     clusterRet |-> NoResult, machineRet |-> NoResult]

NextOptions ==
    \/ New
    \/ newWithSettingsValidate
    \/ newWithSettingsClusterId
    \/ newWithSettingsMachineId

SpecOptions == InitOptions /\ [][NextOptions]_vars

\* ==================================================================== claims
\* Caller c's NextID call returns an id (and no error) in this step.
Issues(c) == pc[c] # "idle" /\ pc'[c] = "idle" /\ out'.err = "nil"

\* The provider values lie in the ranges of the layout.
InRange(e) ==
    /\ clusterId[e] \in 0..(2 ^ bitsCluster - 1)
    /\ machineId[e] \in 0..(2 ^ bitsMachine - 1)

\* C1: over any sequence of successful NextID calls on one engine, under any clock
\* behaviour and through sequence exhaustion, no id is issued with the (elapsed tick,
\* sequence) pair of an id the engine issued earlier.
C1_UniqueTickSequence ==
    [][\A c \in Callers :
          (Issues(c) /\ marked # NoID /\ marked.engine = eng[c])
              => <<elapsedTime'[eng[c]], sequence'[eng[c]]>> # <<marked.tick, marked.seq>>]_vars

\* C2: C callers making N NextID calls each on one shared engine and one shared step
\* clock get C*N ids in all, and no id value is returned twice.
C2_ParallelNoDuplicates ==
    /\ [][\A c \in Callers : (Issues(c) /\ marked # NoID) => out'.id # marked.id]_vars
    /\ []((\A c \in Callers : pc[c] = "idle" /\ calls[c] = perG)
            => ids[1] + ids[2] = Cardinality(Callers) * perG)

\* C3: ids issued sequentially by one caller under a clock that advances on every
\* reading are strictly increasing: each is greater than every id issued before it.
C3_SequentialStrictlyIncreasing ==
    [][\A c \in Callers :
          (Issues(c) /\ marked # NoID /\ \A d \in Callers \ {c} : calls[d] = 0 /\ pc[d] = "idle")
              => out'.id > marked.id]_vars

\* C4: within one running engine, under any clock behaviour (standing still or moving
\* backward included), no NextID result is smaller than or equal to an earlier result
\* of the same engine.
C4_StrictlyIncreasingAnyClock ==
    [][\A c \in Callers :
          (Issues(c) /\ marked # NoID /\ marked.engine = eng[c]) => out'.id > marked.id]_vars

\* C5: a NextID call holds the engine's lock from Lock to its return, the overflow
\* sleep included: a caller inside NextID owns the mutex, and while a caller sleeps no
\* other caller is inside NextID (none reads the clock), the stored tick and sequence
\* do not change and no result is returned.
C5_LockHeldThroughout ==
    /\ [](\A c \in Callers : pc[c] # "idle" => mutex[eng[c]] = c)
    /\ [][\A c \in Callers :
             (pc[c] = "asleep" /\ pc'[c] = "asleep")
                 => /\ elapsedTime' = elapsedTime
                    /\ sequence' = sequence
                    /\ out' = out
                    /\ \A d \in Callers \ {c} : pc[d] = "idle" /\ pc'[d] = "idle"]_vars

\* C5 witness: a caller sleeps in overflow recovery, holding the mutex, and the clock
\* has already passed the virtual tick it waits for.
C5_Witness ==
    \E c \in Callers :
        /\ pc[c] = "asleep"
        /\ mutex[eng[c]] = c
        /\ currentElapsedTime(now) > elapsedTime[eng[c]]

\* C6: two engines with the same bit layout whose providers returned distinct
\* (cluster id, machine id) pairs never issue the same id value.
C6_DistinctEnginesNeverCollide ==
    [][\A c \in Callers :
          (Issues(c) /\ marked # NoID /\ marked.engine # eng[c]) => out'.id # marked.id]_vars

\* C7: in every constructed engine the stored cluster id lies in [0, 2^clusterBits)
\* and the stored machine id in [0, 2^machineBits), whatever the providers returned.
C7_StoredIdsInRange == InRange(1)

\* C8: the ids resolved at construction are never modified, and every id NextID issues
\* decomposes to exactly the cluster id and machine id the providers returned.
C8_IdsFixedAndDecomposed ==
    [][/\ clusterId' = clusterId
       /\ machineId' = machineId
       /\ \A c \in Callers :
             Issues(c) => /\ Decompose(out'.id).ClusterID = clusterId[eng[c]]
                          /\ Decompose(out'.id).MachineID = machineId[eng[c]]]_vars

\* C9: for both alphabets and every x, Decode(Encode(x)) returns x and no error.
C9_DecodeEncodeRoundTrip ==
    codec.pc = "decoded" => codec.err = "nil" /\ codec.value = codec.n

\* The arguments of the Compose call satisfy the preconditions of C10: the time is at
\* or after the epoch, the elapsed tick Compose derives is below 2^timeBits, and the
\* sequence, machine id and cluster id are in their ranges.
ComposeArgsValid ==
    /\ compose.t >= epochTime
    /\ toInternalTime(compose.t) - startTime < 2 ^ bitsTime
    /\ compose.sequence \in 0..(2 ^ bitsSequence - 1)
    /\ compose.machineID \in 0..(2 ^ bitsMachine - 1)
    /\ compose.clusterId \in 0..(2 ^ bitsCluster - 1)

C11_DecomposeInvertsPacking ==
    compose.pc = "decomposed"
        => /\ compose.parts.Timestamp \in 0..(2 ^ bitsTime - 1)
           /\ compose.parts.Sequence \in 0..(2 ^ bitsSequence - 1)
           /\ compose.parts.ClusterID \in 0..(2 ^ bitsCluster - 1)
           /\ compose.parts.MachineID \in 0..(2 ^ bitsMachine - 1)
           /\ toID(compose.parts.Timestamp, compose.parts.Sequence,
                   compose.parts.ClusterID, compose.parts.MachineID)
                  = [id |-> compose.id, err |-> "nil"]

\* C11 witness: the id with every bit set has been decomposed, and every field came
\* out at its maximum.
C11_Witness ==
    /\ compose.pc = "decomposed"
    /\ compose.id = Word - 1
    /\ compose.parts = [Timestamp |-> 2 ^ bitsTime - 1, Sequence |-> 2 ^ bitsSequence - 1,
                        MachineID |-> 2 ^ bitsMachine - 1, ClusterID |-> 2 ^ bitsCluster - 1]

\* Caller c's NextID call returns (an id or an error) in this step.
Returns(c) == pc[c] # "idle" /\ pc'[c] = "idle"

\* C12: a NextID call returns OverTimeLimit and no id exactly when the stored elapsed
\* tick, as the call's update left it, is 2^timeBits or more; in every other case it
\* returns an id and no error.
C12_OverTimeLimitExactly ==
    [][\A c \in Callers :
          Returns(c) =>
              IF elapsedTime'[eng[c]] >= 2 ^ bitsTime
              THEN out' = [id |-> 0, err |-> "errOverTimeLimit"]
              ELSE out'.err = "nil"]_vars

\* C12 witness: a call has just returned OverTimeLimit with the stored tick exactly
\* 2^timeBits, the smallest tick that is over the limit.
C12_Witness ==
    /\ out.err = "errOverTimeLimit"
    /\ elapsedTime[1] = 2 ^ bitsTime
    /\ \A c \in Callers : pc[c] = "idle"

\* C13: OverTimeLimit is terminal: once a NextID call on the engine has returned
\* OverTimeLimit, the next call on it returns OverTimeLimit too (and so every later
\* one), however the clock moves.
C13_OverTimeLimitTerminal ==
    [][\A c \in Callers :
          (Returns(c) /\ out.err = "errOverTimeLimit") => out'.err = "errOverTimeLimit"]_vars

\* Compose has returned (and Decompose may have followed).
Composed == compose.pc \in {"composed", "decomposed"}

\* C19: Compose fails with ErrStartTimeAhead, and returns no id, for every time before
\* the epoch: times less than one time unit before it and epochs that are not a whole
\* number of time units included.
C19_BeforeEpochRejected ==
    (Composed /\ compose.t < epochTime) => compose.err = "ErrStartTimeAhead"

\* The time of the Compose call passes both time checks of Compose.
ComposeTimePasses ==
    /\ toInternalTime(compose.t) >= startTime
    /\ toInternalTime(compose.t) - startTime < 2 ^ bitsTime

\* The dimension-specific errors of the arguments that are outside [0, 2^bits).
ComposeRangeErrors ==
    (IF compose.sequence \in 0..(2 ^ bitsSequence - 1) THEN {} ELSE {"errInvalidSequence"})
    \cup (IF compose.machineID \in 0..(2 ^ bitsMachine - 1) THEN {} ELSE {"errInvalidMachineID"})
    \cup (IF compose.clusterId \in 0..(2 ^ bitsCluster - 1) THEN {} ELSE {"errInvalidClusterID"})

\* C20: for a time that passes the time checks, Compose fails with the error of an
\* out-of-range dimension whenever the sequence, the machine id or the cluster id is
\* outside [0, 2^bits) (negative values and the value 2^bits itself included), so with
\* that dimension's own error when it is the only one out of range, and it returns
\* no error when all three are inside.
C20_ComposeRangeErrors ==
    (Composed /\ ComposeTimePasses)
        => IF ComposeRangeErrors = {} THEN compose.err = "nil"
           ELSE compose.err \in ComposeRangeErrors /\ compose.id = 0

\* C20 witness: Compose has rejected a machine id of exactly 2^machineBits, the
\* sequence and the cluster id being at their maxima.
C20_Witness ==
    /\ Composed /\ ComposeTimePasses
    /\ compose.machineID = 2 ^ bitsMachine
    /\ compose.sequence = 2 ^ bitsSequence - 1
    /\ compose.clusterId = 2 ^ bitsCluster - 1
    /\ compose.err = "errInvalidMachineID"

\* The rules of Validate in the order the specification gives them, each with its
\* error; and the rules the Settings of the newWithSettings call violate.
ValidateRuleOrder ==
    <<"ErrInvalidBitsSequence", "ErrInvalidBitsMachineID", "ErrInvalidBitsClusterID",
      "ErrInvalidTimeUnit", "ErrStartTimeAhead", "ErrInvalidBitsTime">>

ValidationErrors == {ValidateRuleOrder[i] : i \in 1..Len(ValidateRuleOrder)}

RulesViolated ==
    LET s == newCall.settings
    IN  (IF s.BitsSequence \in 8..30 THEN {} ELSE {1})
        \cup (IF s.BitsMachine \in 3..16 THEN {} ELSE {2})
        \cup (IF s.BitsCluster \in 2..8 THEN {} ELSE {3})
        \cup (IF s.TimeUnit = 0 \/ s.TimeUnit >= 1000000 THEN {} ELSE {4})
        \cup (IF s.EpochTime <= now THEN {} ELSE {5})
        \cup (IF 64 - s.BitsSequence - s.BitsMachine - s.BitsCluster >= 30 THEN {} ELSE {6})

\* Validate has returned in the newWithSettings call.
Validated == newCall.pc # "start"

\* C14: when the Settings violate one or more rules, construction fails with the error
\* of the first violated rule in the order sequence width, machine width, cluster
\* width, time unit, epoch, derived time width, and it does so before any provider is
\* invoked, whatever the providers would return.
C14_ValidateOrder ==
    (Validated /\ RulesViolated # {})
        => /\ newCall.pc = "failed"
           /\ newCall.err = ValidateRuleOrder[CHOOSE i \in RulesViolated :
                                                 \A j \in RulesViolated : i <= j]
           /\ newCall.returned = "nil"
           /\ newCall.clusterCalls = 0 /\ newCall.machineCalls = 0

\* C14 witness: Settings that violate the machine, cluster, time-unit, epoch and
\* derived-width rules at once (and not the sequence rule) were rejected.
C14_Witness ==
    /\ newCall.pc = "failed"
    /\ RulesViolated = {2, 3, 4, 5, 6}

C16_ZeroTimeUnitMeansDefault ==
    (Validated /\ RulesViolated = {} /\ newCall.settings.TimeUnit = 0)
        => /\ newCall.pc \in {"cluster", "machine", "built"} \/ newCall.err \in ProviderErrors
           /\ timeUnit = DefaultTimeUnit

\* C17: a construction that returns an engine has invoked each provider exactly once,
\* no construction invokes a provider more than once, and once the engine is returned
\* no operation (NextID, Compose, Decompose) invokes a provider.
C17_ProvidersInvokedOnce ==
    /\ [](/\ newCall.pc = "built" => newCall.clusterCalls = 1 /\ newCall.machineCalls = 1
          /\ newCall.clusterCalls <= 1 /\ newCall.machineCalls <= 1)
    /\ [][newCall.pc = "built" => newCall' = newCall]_vars

\* C17 witness: the engine was returned, each provider was invoked once, and NextID
\* (both callers, one through the overflow sleep), Compose and Decompose have run.
C17_Witness ==
    /\ newCall.pc = "built"
    /\ newCall.clusterCalls = 1 /\ newCall.machineCalls = 1
    /\ \A c \in Callers : calls[c] = 1 /\ pc[c] = "idle"
    /\ compose.pc = "decomposed"

\* C18: when a provider returns an error during the construction of valid Settings,
\* newWithSettings returns no engine and exactly that error, the provider was invoked
\* once, and nothing further happens (no retry, no call of the other provider).
C18_ProviderErrorPropagated ==
    /\ [](/\ newCall.clusterRet.err \in ProviderErrors
                => /\ newCall.pc = "failed" /\ newCall.returned = "nil"
                   /\ newCall.err = newCall.clusterRet.err
                   /\ newCall.clusterCalls = 1 /\ newCall.machineCalls = 0
          /\ newCall.machineRet.err \in ProviderErrors
                => /\ newCall.pc = "failed" /\ newCall.returned = "nil"
                   /\ newCall.err = newCall.machineRet.err
                   /\ newCall.clusterCalls = 1 /\ newCall.machineCalls = 1)
    /\ [][newCall.pc = "failed" => UNCHANGED vars]_vars

\* C18 witness: the cluster-id provider returned an id, the machine-id provider
\* returned an error, and the construction failed with it.
C18_Witness ==
    /\ newCall.pc = "failed"
    /\ newCall.clusterRet.err = "nil"
    /\ newCall.machineRet.err = "errNoZone"
    /\ newCall.err = "errNoZone"

\* The elapsed tick of instant t as the specification defines it: whole time units
\* between the epoch and t.
ElapsedSinceEpoch(t) == (t - epochTime) \div timeUnit

\* C21: for a time at or after the epoch, Compose returns OverTimeLimit exactly when
\* the elapsed tick of the time is 2^timeBits or more, so first at the instant epoch +
\* 2^timeBits time units, and it does so whatever the sequence, machine id and cluster
\* id are (the time check comes before the range checks).
C21_ComposeOverTimeLimit ==
    (Composed /\ compose.t >= epochTime)
        => (compose.err = "errOverTimeLimit" <=> ElapsedSinceEpoch(compose.t) >= 2 ^ bitsTime)

\* C22: the current elapsed tick NextID compares with the stored tick is
\* floor((clock_now - epoch) / time_unit), for every clock reading at or after the
\* epoch and every epoch.
C22_CurrentElapsedTick ==
    [][\A c \in Callers :
          (pc[c] = "locked" /\ pc'[c] # "locked" /\ now' >= epochTime)
              => currentElapsedTime(now') = ElapsedSinceEpoch(now')]_vars

\* The tick the clock shows at instant t, as a (possibly negative) integer: the
\* difference currentElapsedTime forms, before it is taken as a uint64.
ClockTick(t) == (t \div timeUnit) - (epochTime \div timeUnit)

\* C23: whenever the clock's tick at a NextID call is not past the stored tick, a clock
\* that went backward, even behind the epoch, included, the call does not adopt the
\* clock's tick: it steps the sequence modulo 2^sequenceBits and keeps the stored tick
\* (moving it one tick on only when the sequence wrapped to 0).
C23_ClockNotPastStoredTick ==
    [][\A c \in Callers :
          (pc[c] = "locked" /\ pc'[c] # "locked" /\ ClockTick(now') <= elapsedTime[eng[c]])
              => /\ sequence'[eng[c]] = (sequence[eng[c]] + 1) % (2 ^ bitsSequence)
                 /\ elapsedTime'[eng[c]] = IF sequence'[eng[c]] = 0
                                           THEN U64(elapsedTime[eng[c]] + 1)
                                           ELSE elapsedTime[eng[c]]]_vars

\* C26: under both alphabets Encode(0) is the one-character string holding the active
\* alphabet's character for digit 0, and no non-zero value encodes to the string
\* Encode(0).
C26_ZeroKeyReserved ==
    codec.pc \in {"encoded", "decoded"}
        => LET chars == IF codec.base = "Base62Converter" THEN base62Chars ELSE base64Chars
           IN  /\ codec.n = 0 => codec.key = <<chars[1]>>
               /\ codec.n # 0 => codec.key # Encode(codec.base, 0)

\* The characters of both alphabets in byte order (ASCII), which is the order Go
\* compares strings in.
ByteOrder ==
    <<
       "+", "/", "0", "1", "2", "3", "4", "5", "6", "7", "8", "9", "A", "B", "C", "D",
       "E", "F", "G", "H", "I", "J", "K", "L", "M", "N", "O", "P", "Q", "R", "S", "T",
       "U", "V", "W", "X", "Y", "Z", "a", "b", "c", "d", "e", "f", "g", "h", "i", "j",
       "k", "l", "m", "n", "o", "p", "q", "r", "s", "t", "u", "v", "w", "x", "y", "z"
    >>

\* Go's a > b on strings: at the first position where they differ a has the greater
\* byte, or b is a proper prefix of a.
LexGreater(a, b) ==
    \/ Len(a) > Len(b) /\ \A j \in 1..Len(b) : a[j] = b[j]
    \/ \E i \in 1..Len(a) :
          /\ i <= Len(b)
          /\ \A j \in 1..(i - 1) : a[j] = b[j]
          /\ IndexByte(ByteOrder, a[i]) > IndexByte(ByteOrder, b[i])

\* The second value of the pairs the order of keys is examined on goes up to here.
MaxOrderValue == 70

\* The key of value x sorts after the key of a greater value y of another length.
OrderInverted(b, x, k) ==
    \E y \in (x + 1)..MaxOrderValue :
        /\ Len(Encode(b, y)) # Len(k)
        /\ LexGreater(k, Encode(b, y))

\* C29: keys have no padding, so for each alphabet there are values x < y whose keys
\* have different lengths with the key of x lexicographically greater than the key of
\* y: whichever alphabet is active, some single-digit x below the radix has such a y.
C29_KeyOrderNotNumeric ==
    codec.pc = "encoded"
        => \E x \in 1..61 : OrderInverted(codec.base, x, Encode(codec.base, x))

\* C29 witness: Encode has returned the key of 2, and the key of a greater value (the
\* radix, two characters long) sorts before it.
C29_Witness ==
    /\ codec.pc = "encoded"
    /\ codec.n = 2
    /\ OrderInverted(codec.base, codec.n, codec.key)

\* C27: NextKey issues an id as NextID does and returns its encoding under the
\* engine's codec: decoding the returned key gives the id that was issued, the decoded
\* ids of successive calls are strictly increasing under a clock that advances on
\* every reading, and when issuing fails NextKey returns the empty string and the
\* error of NextID.
C27_NextKeyEncodesIssuedId ==
    [][\A c \in Callers :
          Returns(c) =>
              IF out'.err = "nil"
              THEN /\ key'.err = "nil"
                   /\ Decode(base, key'.key) = [value |-> out'.id, err |-> "nil"]
                   /\ marked # NoID => Decode(base, key'.key).value > marked.id
              ELSE key' = [key |-> <<>>, err |-> out'.err]]_vars

\* The key at hand holds a character that is not in the engine's alphabet.
KeyHasForeignChar ==
    LET chars == IF base = "Base62Converter" THEN base62Chars ELSE base64Chars
    IN  \E i \in 1..Len(compose.key) : \A j \in 1..Len(chars) : chars[j] # compose.key[i]

\* C24: Decode of a string with at least one character outside the active alphabet,
\* wherever it stands, fails with ErrInvalidBase and value 0, and DecomposeKey of such
\* a key returns the same error and no parts.
C24_ForeignCharRejected ==
    KeyHasForeignChar
        => /\ codec.pc = "decoded" => codec.err = "ErrInvalidBase" /\ codec.value = 0
           /\ compose.pc = "unkeyed" => compose.err = "ErrInvalidBase" /\ compose.parts = "nil"

\* C24 witness: a key whose last character alone is outside the alphabet has been
\* passed to Decode and to DecomposeKey.
C24_Witness ==
    /\ codec.pc = "decoded" /\ compose.pc = "unkeyed"
    /\ Len(compose.key) = 3
    /\ compose.key[1] = "z" /\ compose.key[2] = "A" /\ compose.key[3] = "+"
    /\ base = "Base62Converter"
    /\ compose.err = "ErrInvalidBase"

\* C25: under both alphabets Decode of the empty string returns 0 and no error, and
\* DecomposeKey of the empty string succeeds with all four fields 0.
C25_EmptyKeyIsZero ==
    compose.key = <<>>
        => /\ codec.pc = "decoded" => codec.err = "nil" /\ codec.value = 0
           /\ compose.pc = "unkeyed"
                 => /\ compose.err = "nil"
                    /\ compose.parts = [Timestamp |-> 0, Sequence |-> 0,
                                        MachineID |-> 0, ClusterID |-> 0]

\* C25 witness: the empty string has been decoded and decomposed under the
\* 64-alphabet.
C25_Witness ==
    /\ compose.key = <<>>
    /\ base = "Base64Converter"
    /\ codec.pc = "decoded" /\ compose.pc = "unkeyed"

\* C28: for either codec and every in-range time, sequence, machine id and cluster id
\* (the all-zero case included), ComposeKey succeeds and DecomposeKey of its key
\* succeeds and returns the elapsed tick, sequence, machine id and cluster id that
\* were supplied.
C28_ComposeKeyDecomposeKeyRoundTrip ==
    ComposeArgsValid
        => /\ compose.pc \in {"keyed", "unkeyed"} => compose.err = "nil"
           /\ compose.pc = "unkeyed"
                 => compose.parts = [Timestamp |-> toInternalTime(compose.t) - startTime,
                                     Sequence |-> compose.sequence,
                                     MachineID |-> compose.machineID,
                                     ClusterID |-> compose.clusterId]

\* C30: under normal operation (the clock never goes back and moves on by the time
\* slept), in every overflow recovery the overtime passed to sleep is exactly 1 tick
\* and the sleep lasts the rest of the current tick: more than nothing and at most one
\* time unit.
C30_SleepWithinOneTick ==
    [][\A c \in Callers :
          (pc[c] = "sleep" /\ pc'[c] = "asleep")
              => /\ overtime[c] = 1
                 /\ sleepTime'[c] \in 1..timeUnit
                 /\ sleepTime'[c] = timeUnit - (now' % timeUnit)]_vars

\* C30 witness: a caller sleeps in overflow recovery for less than a whole time unit,
\* the clock having been read part-way through a tick.
C30_Witness ==
    \E c \in Callers :
        /\ pc[c] = "asleep"
        /\ sleepTime[c] \in 1..(timeUnit - 1)
        /\ now % timeUnit # 0

\* C31: Settings whose BitsSequence is 0 and that violate no other rule are not
\* rejected for their sequence width: the default width is used in its place and the
\* construction goes on to the providers.
C31_ZeroSequenceBitsMeansDefault ==
    (Validated /\ newCall.settings.BitsSequence = 0 /\ RulesViolated \subseteq {1})
        => newCall.err # "ErrInvalidBitsSequence"

\* The defaults the doc comment of New documents, and for each option the field of the
\* Settings it is documented to set and the value it gives it.
DocumentedDefaults ==
    [BitsSequence |-> 8, BitsCluster |-> 8, BitsMachine |-> 16, TimeUnit |-> 10 * Millisecond,
     Base |-> "Base62Converter", EpochTime |-> defaultEpochTime]

OptionField(o) ==
    CASE o.opt = "WithSequenceBits" -> "BitsSequence"
      [] o.opt = "WithClusterBits" -> "BitsCluster"
      [] o.opt = "WithMachineBits" -> "BitsMachine"
      [] o.opt = "WithTimeUnit" -> "TimeUnit"
      [] o.opt \in {"WithBase62Keys", "WithBase64Keys"} -> "Base"
      [] o.opt = "WithEpoch" -> "EpochTime"

OptionValue(o) ==
    CASE o.opt = "WithBase62Keys" -> "Base62Converter"
      [] o.opt = "WithBase64Keys" -> "Base64Converter"
      [] OTHER -> o.arg

\* C32: the Settings New passes to newWithSettings hold, in every field no option
\* sets, the documented default (sequence width 8, cluster width 8, machine width 16,
\* time unit 10 ms, base-62 codec, epoch 2025-01-01), and in every field an option
\* sets the value of the last such option; so with no options they are the documented
\* defaults.
C32_DocumentedDefaults ==
    newCall.pc # "new"
        => \A f \in DOMAIN DocumentedDefaults :
              LET setters == {i \in 1..Len(newCall.opts) : OptionField(newCall.opts[i]) = f}
              IN  newCall.settings[f] =
                     IF setters = {} THEN DocumentedDefaults[f]
                     ELSE OptionValue(newCall.opts[CHOOSE i \in setters :
                                                      \A j \in setters : j <= i])

\* C33: Compose, ComposeKey, Decompose, DecomposeKey, Encode and Decode never wait
\* for the engine's lock: each can be carried out in every state in which it has been
\* asked for, whoever holds the mutex and whether or not that caller sleeps.  A step
\* of any of them leaves the engine's fields, the callers inside NextID, the clock and
\* NextID's results as they are, and every result NextID returns is toID of the stored
\* tick and sequence, which only NextID changes.
C33_PureCallsLockFree ==
    /\ [](/\ compose.pc = "start" => ENABLED ComposeCall /\ ENABLED ComposeKeyCall
          /\ (compose.pc = "composed" /\ compose.err = "nil") => ENABLED DecomposeCall
          /\ (compose.pc = "keyed" /\ compose.err = "nil") => ENABLED DecomposeKeyCall
          /\ codec.pc = "start" => ENABLED CodecEncode
          /\ codec.pc = "encoded" => ENABLED CodecDecode)
    /\ [][/\ (compose' # compose \/ codec' # codec)
                => UNCHANGED <<engineVars, callerVars, observerVars, now>>
          /\ \A c \in Callers :
                Returns(c) => out' = toID(elapsedTime'[eng[c]], sequence'[eng[c]],
                                          clusterId[eng[c]], machineId[eng[c]])]_vars

\* C33 witness: a caller sleeps in overflow recovery, holding the mutex, and the pure
\* calls have completed: a key was composed and decomposed and a value encoded and
\* decoded.
C33_Witness ==
    \E c \in Callers :
        /\ pc[c] = "asleep"
        /\ mutex[eng[c]] = c
        /\ compose.pc = "unkeyed"
        /\ codec.pc = "decoded"

\* C34: a NextID call that reads a current tick strictly greater than the stored tick
\* adopts it and resets the sequence to 0, and the id it returns (when it returns one)
\* has sequence field 0 and time field equal to the current tick; and no NextID call
\* leaves the stored tick smaller than it found it.
C34_FreshTickAdopted ==
    [][\A c \in Callers :
          (pc[c] = "locked" /\ pc'[c] # "locked")
              => /\ currentElapsedTime(now') > elapsedTime[eng[c]]
                    => /\ elapsedTime'[eng[c]] = currentElapsedTime(now')
                       /\ sequence'[eng[c]] = 0
                       /\ Returns(c)
                       /\ out'.err = "nil"
                             => /\ Decompose(out'.id).Sequence = 0
                                /\ Decompose(out'.id).Timestamp = currentElapsedTime(now')
                 /\ elapsedTime'[eng[c]] >= elapsedTime[eng[c]]]_vars

C36_SequenceRangeAndTickCapacity ==
    /\ \A e \in Engines : sequence[e] \in 0..(2 ^ bitsSequence - 1)
    /\ sameTick <= 2 ^ bitsSequence

\* C37: no successful NextKey call on an engine returns a key string that an earlier
\* successful NextKey call on it returned, under either codec and however the clock
\* moves.
C37_KeysNeverRepeat ==
    [][\A c \in Callers :
          (Issues(c) /\ marked # NoID /\ marked.engine = eng[c])
              => key'.key # Encode(base, marked.id)]_vars

\* C38: newWithSettings validates, then invokes the cluster-id provider, then the
\* machine-id provider: when validation fails no provider is invoked; a provider is
\* invoked only once validation has passed; the cluster-id provider is invoked while
\* the machine-id provider has not been; and the machine-id provider is invoked only
\* after the cluster-id provider returned without an error.
C38_ConstructionOrder ==
    /\ [](/\ newCall.err \in ValidationErrors
                => newCall.clusterCalls = 0 /\ newCall.machineCalls = 0
          /\ newCall.clusterCalls > 0 => Validated /\ newCall.err \notin ValidationErrors
          /\ newCall.machineCalls > 0
                => newCall.clusterCalls > 0 /\ newCall.clusterRet.err = "nil")
    /\ [][/\ newCall'.clusterCalls > newCall.clusterCalls
                => Validated /\ newCall.machineCalls = 0
          /\ newCall'.machineCalls > newCall.machineCalls
                => newCall.clusterCalls > 0 /\ newCall.clusterRet.err = "nil"]_vars

\* C38 witness: validation passed, the cluster-id provider was invoked and returned an
\* error, and the construction ended without the machine-id provider being invoked.
C38_Witness ==
    /\ newCall.pc = "failed"
    /\ newCall.clusterCalls = 1
    /\ newCall.clusterRet.err = "errDummy"
    /\ newCall.machineCalls = 0
    /\ newCall.machineRet = NoResult

\* C39: with a fair lock and sleeps that end, every return of NextID (of an id or of
\* OverTimeLimit) releases the mutex, and eventually all callers have completed all
\* their calls and the mutex is free: every call that was begun has returned and none
\* waits for ever, whether or not an earlier call failed.
C39_EveryCallReturns ==
    /\ [][\A c \in Callers : Returns(c) => mutex'[eng[c]] = 0]_vars
    /\ <>(\A c \in Callers : pc[c] = "idle" /\ calls[c] = perG /\ mutex[eng[c]] = 0)

\* C39 witness: all callers have completed all their calls, some of which returned an
\* id and a later one OverTimeLimit, and the mutex is free.
C39_Witness ==
    /\ \A c \in Callers : pc[c] = "idle" /\ calls[c] = perG
    /\ mutex[1] = 0
    /\ out.err = "errOverTimeLimit"
    /\ ids[1] + ids[2] \in 1..(Cardinality(Callers) * perG - 2)

\* C40: whenever the Settings passed to newWithSettings have a sequence width in the
\* documented range [8,30], the maximum 30 included, there are a machine width in
\* [3,16] and a cluster width in [2,8] with which Validate accepts Settings of that
\* sequence width (with a valid time unit and epoch).
C40_EverySequenceWidthUsable ==
    (Validated /\ newCall.settings.BitsSequence \in 8..30)
        => \E bm \in 3..16, bc \in 2..8 :
              Validate([newCall.settings EXCEPT !.BitsMachine = bm, !.BitsCluster = bc,
                                                !.TimeUnit = DefaultTimeUnit,
                                                !.EpochTime = now]) = "nil"

====
